---- MODULE Spec2Model ----
(***************************************************************************)
(* A model of indicator_lookup.py: the trading-day alignment, the          *)
(* indicator library (RSI, stochastic oscillator, SMA), the context        *)
(* signals, compute_for and the batch loop of main.                        *)
(*                                                                         *)
(* Numbers.  Prices are small integers.  A float that the code computes    *)
(* is an exact rational <<n, d>> with d > 0; NaN / None / pd.NA is the     *)
(* empty tuple; +inf and -inf are <<1, 0>> and <<-1, 0>>.                  *)
(* Time.  An instant is a number of hours; a daily bar is stamped at       *)
(* local midnight of a day of June 2024 in the zone of its exchange.       *)
(***************************************************************************)
EXTENDS Integers, Sequences, FiniteSets, TLC

VARIABLES
    pc,         \* position of the program
    args,       \* arguments of the running compute_for call
    loc,        \* locals of the running compute_for call
    fetchLog,   \* download_history calls made by the running compute_for call
    rows,       \* records returned by compute_for so far (main's rows list)
    batch,      \* main's tickers_list, dates_list and loop position
    hist,       \* per finished request: what the primary fetch did
    inp,        \* input of the indicator function under check
    out         \* its output

vars == <<pc, args, loc, fetchLog, rows, batch, hist, inp, out>>

(***************************************************************************)
(* Bounds of the model.                                                    *)
(***************************************************************************)
MaxLen == 4      \* longest close series given to sma and rsi_wilder
MaxPx == 3       \* closes given to sma and rsi_wilder are 1..MaxPx
MaxWin == 2      \* window and smoothing lengths are 1..MaxWin
MaxLenS == 3     \* longest OHLC series given to stochastic_oscillator
Levels == {1, 2, 3}   \* price levels of the bars given to stochastic_oscillator
MaxDay == 5      \* fetched sessions fall on 3..MaxDay June 2024
MaxCtx == 2      \* longest series the benchmark and yield fetches return

(***************************************************************************)
(* Floats.                                                                 *)
(***************************************************************************)
None == <<>>
Int2F(k) == <<k, 1>>
IsNum(x) == x # None /\ x[2] # 0
IsInf(x) == x # None /\ x[2] = 0

Sign(k) == IF k > 0 THEN 1 ELSE IF k < 0 THEN -1 ELSE 0

RECURSIVE Pow(_, _)
Pow(b, e) == IF e = 0 THEN 1 ELSE b * Pow(b, e - 1)

RECURSIVE Gcd(_, _)
Gcd(a, b) == IF b = 0 THEN a ELSE Gcd(b, a % b)

Abs(k) == IF k < 0 THEN -k ELSE k

\* the fraction n/d, d > 0, in lowest terms
Frac(n, d) == LET g == Gcd(Abs(n), d) IN <<n \div g, d \div g>>

\* a + b
FAdd(a, b) ==
    IF a = None \/ b = None THEN None
    ELSE IF IsInf(a) /\ IsInf(b) THEN (IF a = b THEN a ELSE None)
    ELSE IF IsInf(a) THEN a
    ELSE IF IsInf(b) THEN b
    ELSE Frac(a[1] * b[2] + b[1] * a[2], a[2] * b[2])

\* -a
FNeg(a) == IF a = None THEN None ELSE <<-a[1], a[2]>>

\* a - b
FSub(a, b) == FAdd(a, FNeg(b))

\* a * b
FMul(a, b) ==
    IF a = None \/ b = None THEN None
    ELSE IF IsInf(a) \/ IsInf(b)
         THEN (IF a[1] = 0 \/ b[1] = 0 THEN None ELSE <<Sign(a[1]) * Sign(b[1]), 0>>)
    ELSE Frac(a[1] * b[1], a[2] * b[2])

\* a / b as IEEE division gives it: x/0 is an infinity, 0/0 is NaN
FDiv(a, b) ==
    IF a = None \/ b = None THEN None
    ELSE IF IsInf(a) THEN (IF IsInf(b) THEN None
                           ELSE <<a[1] * (IF b[1] < 0 THEN -1 ELSE 1), 0>>)
    ELSE IF IsInf(b) THEN <<0, 1>>
    ELSE IF b[1] = 0 THEN (IF a[1] = 0 THEN None ELSE <<Sign(a[1]), 0>>)
    ELSE IF b[1] > 0 THEN Frac(a[1] * b[2], a[2] * b[1])
    ELSE Frac(-(a[1] * b[2]), -(a[2] * b[1]))

\* comparisons of two numbers
FLe(a, b) == a[1] * b[2] <= b[1] * a[2]
FLt(a, b) == a[1] * b[2] < b[1] * a[2]

FMin(a, b) == IF FLe(a, b) THEN a ELSE b
FMax(a, b) == IF FLe(a, b) THEN b ELSE a

\* round(x, digits): the nearest multiple of 10^-digits, ties to even,
\* given as the integer count of such multiples (scale = 10^digits)
Round(x, scale) ==
    LET n == x[1] * scale
        d == x[2]
        q == n \div d
        r == n % d
    IN  IF 2 * r < d THEN q
        ELSE IF 2 * r > d THEN q + 1
        ELSE IF q % 2 = 0 THEN q ELSE q + 1

(***************************************************************************)
(* pandas rolling windows: .rolling(window, min_periods).<agg>() at        *)
(* position i looks at the entries max(1, i-window+1)..i, counts those     *)
(* that are not NaN and gives NaN when fewer than min_periods are there.   *)
(***************************************************************************)
WinLo(i, window) == IF i - window + 1 > 1 THEN i - window + 1 ELSE 1

RECURSIVE WinCount(_, _, _)
WinCount(s, lo, hi) ==
    IF hi < lo THEN 0
    ELSE WinCount(s, lo, hi - 1) + (IF s[hi] = None THEN 0 ELSE 1)

RECURSIVE WinSum(_, _, _)
WinSum(s, lo, hi) ==
    IF hi < lo THEN <<0, 1>>
    ELSE IF s[hi] = None THEN WinSum(s, lo, hi - 1)
    ELSE FAdd(WinSum(s, lo, hi - 1), s[hi])

RECURSIVE WinMin(_, _, _)
WinMin(s, lo, hi) ==
    IF hi < lo THEN None
    ELSE LET rest == WinMin(s, lo, hi - 1)
         IN  IF s[hi] = None THEN rest
             ELSE IF rest = None THEN s[hi]
             ELSE FMin(rest, s[hi])

RECURSIVE WinMax(_, _, _)
WinMax(s, lo, hi) ==
    IF hi < lo THEN None
    ELSE LET rest == WinMax(s, lo, hi - 1)
         IN  IF s[hi] = None THEN rest
             ELSE IF rest = None THEN s[hi]
             ELSE FMax(rest, s[hi])

rolling_mean(s, window, min_periods) ==
    [i \in 1..Len(s) |->
        LET lo == WinLo(i, window)
            nobs == WinCount(s, lo, i)
        IN  IF nobs < min_periods THEN None
            ELSE FDiv(WinSum(s, lo, i), Int2F(nobs))]

rolling_min(s, window, min_periods) ==
    [i \in 1..Len(s) |->
        LET lo == WinLo(i, window)
        IN  IF WinCount(s, lo, i) < min_periods THEN None ELSE WinMin(s, lo, i)]

rolling_max(s, window, min_periods) ==
    [i \in 1..Len(s) |->
        LET lo == WinLo(i, window)
        IN  IF WinCount(s, lo, i) < min_periods THEN None ELSE WinMax(s, lo, i)]

(***************************************************************************)
(* The indicator library.                                                  *)
(***************************************************************************)
\* a faulty variant: min_periods left at 1, so a partial window gives an average
sma_partial(series, window) == rolling_mean(series, window, 1)

sma(series, window) == rolling_mean(series, window, window)

\* Series.diff(): NaN first, then the change from the entry before
diff(close) ==
    [i \in 1..Len(close) |-> IF i = 1 THEN None ELSE FSub(close[i], close[i - 1])]

\* Series.clip(lower=0) and Series.clip(upper=0); NaN stays NaN
clip_lower0(s) ==
    [i \in 1..Len(s) |-> IF s[i] = None THEN None ELSE FMax(s[i], <<0, 1>>)]
clip_upper0(s) ==
    [i \in 1..Len(s) |-> IF s[i] = None THEN None ELSE FMin(s[i], <<0, 1>>)]

\* Series.ewm(alpha=1/length, adjust=False).mean() at position i: NaN until
\* the first observation, which seeds the average; then
\* avg[i] = (1 - alpha) * avg[i-1] + alpha * x[i]
RECURSIVE ewm_at(_, _, _)
ewm_at(x, length, i) ==
    IF i = 0 THEN None
    ELSE LET prev == ewm_at(x, length, i - 1)
         IN  IF x[i] = None THEN prev
             ELSE IF prev = None THEN x[i]
             ELSE FAdd(FMul(<<length - 1, length>>, prev), FMul(<<1, length>>, x[i]))

ewm_mean(x, length) == [i \in 1..Len(x) |-> ewm_at(x, length, i)]

\* Series.replace(0, pd.NA)
replace0(s) ==
    [i \in 1..Len(s) |-> IF s[i] # None /\ IsNum(s[i]) /\ s[i][1] = 0 THEN None ELSE s[i]]

\* a faulty variant: the zero average loss is not replaced, the division gives inf
rsi_wilder_noreplace(close, length) ==
    LET delta == diff(close)
        gain == clip_lower0(delta)
        loss == [i \in 1..Len(close) |-> FNeg(clip_upper0(delta)[i])]
        avg_gain == ewm_mean(gain, length)
        avg_loss == ewm_mean(loss, length)
        rs == [i \in 1..Len(close) |-> FDiv(avg_gain[i], avg_loss[i])]
    IN  [i \in 1..Len(close) |->
            FSub(<<100, 1>>, FDiv(<<100, 1>>, FAdd(<<1, 1>>, rs[i])))]

rsi_wilder(close, length) ==
    LET delta == diff(close)
        gain == clip_lower0(delta)
        loss == [i \in 1..Len(close) |-> FNeg(clip_upper0(delta)[i])]
        avg_gain == ewm_mean(gain, length)
        avg_loss == ewm_mean(loss, length)
        rs == [i \in 1..Len(close) |-> FDiv(avg_gain[i], replace0(avg_loss)[i])]
    IN  [i \in 1..Len(close) |->
            FSub(<<100, 1>>, FDiv(<<100, 1>>, FAdd(<<1, 1>>, rs[i])))]

\* the columns of an OHLC frame as float series
Col(df, name) == [i \in 1..Len(df) |-> Int2F(df[i][name])]

\* percent_k_raw of stochastic_oscillator
percent_k_raw(df, length) ==
    LET low_min == rolling_min(Col(df, "Low"), length, length)
        high_max == rolling_max(Col(df, "High"), length, length)
    IN  [i \in 1..Len(df) |->
            FMul(FDiv(FSub(Int2F(df[i].Close), low_min[i]),
                      FSub(high_max[i], low_min[i])),
                 <<100, 1>>)]

\* a faulty variant: the smoothing stages run with min_periods = 1
stochastic_oscillator_partial(df, length, smooth_k, smooth_d) ==
    LET percent_k == rolling_mean(percent_k_raw(df, length), smooth_k, 1)
        percent_d == rolling_mean(percent_k, smooth_d, 1)
    IN  <<percent_k, percent_d>>

stochastic_oscillator(df, length, smooth_k, smooth_d) ==
    LET percent_k == rolling_mean(percent_k_raw(df, length), smooth_k, smooth_k)
        percent_d == rolling_mean(percent_k, smooth_d, smooth_d)
    IN  <<percent_k, percent_d>>

(***************************************************************************)
(* Date strings.  A string is its three '-'-separated fields, each a       *)
(* sequence of characters: a digit is 0..9, any other character is -1.     *)
(***************************************************************************)
IsDigit(ch) == ch \in 0..9

RECURSIVE Val(_)
Val(f) == IF f = <<>> THEN 0 ELSE 10 * Val(SubSeq(f, 1, Len(f) - 1)) + f[Len(f)]

\* the regular expressions _strptime builds for %Y, %m and %d
MatchY(f) == Len(f) = 4 /\ \A i \in 1..4 : IsDigit(f[i])
MatchM(f) ==
    \/ Len(f) = 2 /\ f[1] = 1 /\ f[2] \in 0..2
    \/ Len(f) = 2 /\ f[1] = 0 /\ f[2] \in 1..9
    \/ Len(f) = 1 /\ f[1] \in 1..9
MatchD(f) ==
    \/ Len(f) = 2 /\ f[1] = 3 /\ f[2] \in 0..1
    \/ Len(f) = 2 /\ f[1] \in 1..2 /\ IsDigit(f[2])
    \/ Len(f) = 2 /\ f[1] = 0 /\ f[2] \in 1..9
    \/ Len(f) = 1 /\ f[1] \in 1..9

IsLeap(y) == (y % 4 = 0 /\ y % 100 # 0) \/ y % 400 = 0
DaysInMonth(y, m) ==
    IF m = 2 THEN (IF IsLeap(y) THEN 29 ELSE 28)
    ELSE IF m \in {4, 6, 9, 11} THEN 30 ELSE 31

\* datetime.strptime(date_str, "%Y-%m-%d"): <<date>>, or None for ValueError
strptime(date_str) ==
    IF ~(MatchY(date_str[1]) /\ MatchM(date_str[2]) /\ MatchD(date_str[3]))
    THEN None
    ELSE LET y == Val(date_str[1])
             m == Val(date_str[2])
             d == Val(date_str[3])
         IN  IF y < 1 \/ d > DaysInMonth(y, m) THEN None
             ELSE <<[year |-> y, month |-> m, day |-> d]>>

\* days from 31 May of the date's year to the date (1 June is day 1)
RECURSIVE DaysBefore(_, _)
DaysBefore(y, m) == IF m = 1 THEN 0 ELSE DaysBefore(y, m - 1) + DaysInMonth(y, m - 1)
DayNo(date) == DaysBefore(date.year, date.month) + date.day - DaysBefore(date.year, 6)

\* .replace(tzinfo=KST): the instant of 00:00 Asia/Seoul on the date, in hours
\* of Seoul wall-clock time counted from 00:00 on 31 May
MidnightKst(date) == DayNo(date) * 24

(***************************************************************************)
(* Time zones and the Calendar Aligner.  A bar of a fetched frame is       *)
(* [day, tz, Low, High, Close]: stamped at local midnight of June `day`    *)
(* in zone tz; tz = "naive" is an index without a zone.                    *)
(***************************************************************************)
KstOffset == 9

\* hours east of UTC in June 2024; a naive index is localized as UTC
UtcOffset(tz) ==
    CASE tz = "America/New_York" -> -4
      [] tz = "Asia/Seoul" -> 9
      [] OTHER -> 0

\* the frame indexed by Seoul wall-clock instants
to_kst_index(df) ==
    [i \in 1..Len(df) |->
        [kst |-> df[i].day * 24 - UtcOffset(df[i].tz) + KstOffset,
         Low |-> df[i].Low, High |-> df[i].High, Close |-> df[i].Close]]

\* Timestamp.date() of a Seoul instant
DateOf(kst) == kst \div 24

\* a faulty variant: the frame is not filtered, its last session is returned
last_on_or_before_kst_nofilter(df, when_kst) ==
    LET df_kst == to_kst_index(df)
    IN  IF Len(df_kst) = 0 THEN None ELSE <<df_kst[Len(df_kst)].kst>>

last_on_or_before_kst(df, when_kst) ==
    LET df_kst == to_kst_index(df)
        Keep(b) == b.kst <= when_kst
        valid == SelectSeq(df_kst, Keep)
    IN  IF valid = <<>> THEN None ELSE <<valid[Len(valid)].kst>>

first_on_or_after_kst(df, when_kst) ==
    LET df_kst == to_kst_index(df)
        Keep(b) == b.kst >= when_kst
        valid == SelectSeq(df_kst, Keep)
    IN  IF valid = <<>> THEN None ELSE <<valid[1].kst>>

\* the position of instant ts in the index of df_kst (.loc[ts])
Loc(df_kst, ts) == CHOOSE i \in 1..Len(df_kst) : df_kst[i].kst = ts

(***************************************************************************)
(* The fetch collaborator.  A call of download_history is logged as        *)
(* [sym, start, end] (day numbers) and answers [kind, data]: kind "raise"  *)
(* is an exception of yfinance, kind "ok" a frame, maybe empty.            *)
(***************************************************************************)
download_history(ticker, start_day, end_day) ==
    [sym |-> ticker, start |-> start_day - 2, end |-> end_day + 2]

Raise == [kind |-> "raise", data |-> <<>>]
Ok(df) == [kind |-> "ok", data |-> df]

\* what a function "returns" when an exception leaves it
Exc == <<0, 0, 0>>

\* a faulty variant: no try/except, an exception of the fetch leaves the function
nasdaq_drawdown_at_kst_nocatch(res, date_kst) ==
    IF res.kind = "raise" THEN Exc
    ELSE LET ixic == res.data
             ts_kst == last_on_or_before_kst(ixic, date_kst)
         IN  IF ts_kst = None THEN None
             ELSE LET Keep(b) == b.kst <= ts_kst[1]
                      ixic_kst == SelectSeq(to_kst_index(ixic), Keep)
                      closes == [i \in 1..Len(ixic_kst) |-> Int2F(ixic_kst[i].Close)]
                      peak_until == WinMax(closes, 1, Len(closes))
                      last_close == closes[Len(closes)]
                  IN  IF peak_until[1] = 0 THEN None
                      ELSE FMul(FSub(FDiv(last_close, peak_until), <<1, 1>>), <<100, 1>>)

\* res is what download_history("^IXIC", ..) does; None when it raises
nasdaq_drawdown_at_kst(res, date_kst) ==
    IF res.kind = "raise" THEN None
    ELSE LET ixic == res.data
             ts_kst == last_on_or_before_kst(ixic, date_kst)
         IN  IF ts_kst = None THEN None
             ELSE LET Keep(b) == b.kst <= ts_kst[1]
                      ixic_kst == SelectSeq(to_kst_index(ixic), Keep)
                      closes == [i \in 1..Len(ixic_kst) |-> Int2F(ixic_kst[i].Close)]
                      peak_until == WinMax(closes, 1, Len(closes))
                      last_close == closes[Len(closes)]
                  IN  IF peak_until[1] = 0 THEN None
                      ELSE FMul(FSub(FDiv(last_close, peak_until), <<1, 1>>), <<100, 1>>)

\* res is what download_history("^TNX", ..) does; None when it raises
us10y_yield_at_kst(res, date_kst) ==
    IF res.kind = "raise" THEN None
    ELSE IF res.data = <<>> THEN None
    ELSE LET tnx_kst == to_kst_index(res.data)
             Mask(b) == DateOf(b.kst) <= DateOf(date_kst)
             sel == SelectSeq(tnx_kst, Mask)
         IN  IF sel = <<>> THEN None ELSE Int2F(sel[Len(sel)].Close)

(***************************************************************************)
(* The program before main or compute_for is called; it stays so while an  *)
(* indicator function is checked on its own.                               *)
(***************************************************************************)
NoArgs ==
    [ticker |-> "", date_str |-> <<<<>>, <<>>, <<>>>>, align |-> "",
     rsi_len |-> 0, stoch_len |-> 0, smooth_k |-> 0, smooth_d |-> 0, sma_window |-> 0]

NoLocals ==
    [when_kst |-> None, price |-> None, ts |-> None, rsi |-> None, k |-> None,
     d |-> None, ma200 |-> None, dd |-> None, ixic |-> "", tnx |-> ""]

NoBatch == [on |-> FALSE, tickers_list |-> <<>>, dates_list |-> <<>>, align |-> "", n |-> 0]

ProgramIdle ==
    /\ pc = "idle"
    /\ args = NoArgs
    /\ loc = NoLocals
    /\ fetchLog = <<>>
    /\ rows = <<>>
    /\ batch = NoBatch
    /\ hist = <<>>

ProgramVars == <<pc, args, loc, fetchLog, rows, batch, hist>>

SeqsUpTo(S, n) == UNION {[1..k -> S] : k \in 0..n}

(***************************************************************************)
(* What the collaborator may answer.                                       *)
(***************************************************************************)
Days == 3..MaxDay
Zones == {"naive", "America/New_York", "Asia/Seoul"}

\* the sequences of k bars of B on strictly later and later days
IncSeqs(B, k) == {f \in [1..k -> B] : \A i \in 1..(k - 1) : f[i].day < f[i + 1].day}

\* low, high and close of the bars of a primary series
PriceShapes ==
    {[Low |-> 1, High |-> 1, Close |-> 1],
     [Low |-> 1, High |-> 3, Close |-> 2]}

PriceBars(tz) ==
    {[day |-> dy, tz |-> tz, Low |-> b.Low, High |-> b.High, Close |-> b.Close] :
        dy \in Days, b \in PriceShapes}

\* a ticker trades on one exchange: every bar of a frame has its zone
PriceFrames == UNION {IncSeqs(PriceBars(tz), k) : tz \in Zones, k \in 1..(MaxDay - 2)}

\* the benchmark and the yield are New York instruments.  A benchmark close
\* may be 0; the yield of a day is told apart by its value
IxicBars ==
    {[day |-> dy, tz |-> "America/New_York", Low |-> c, High |-> c, Close |-> c] :
        dy \in Days, c \in 0..2}
TnxBars ==
    {[day |-> dy, tz |-> "America/New_York", Low |-> dy, High |-> dy, Close |-> dy] :
        dy \in Days}

IxicFrames == UNION {IncSeqs(IxicBars, k) : k \in 1..MaxCtx}
TnxFrames == UNION {IncSeqs(TnxBars, k) : k \in 1..MaxCtx}

\* the frames a batch of main draws from: New York sessions from 3 June on
BatchFrames ==
    {f \in PriceFrames : f[1].tz = "America/New_York" /\ f[1].day = 3 /\
                         \A i \in 1..Len(f) : f[i].Close = 2 /\ f[i].day # 5}
BatchIxic == {f \in IxicFrames : Len(f) = 1 /\ f[1].day = 3 /\ f[1].Close = 2}
BatchTnx == {f \in TnxFrames : Len(f) = 1 /\ f[1].day = 3}

\* a single call of compute_for is checked against every frame, a batch of
\* main against a few only
PriceOutcomes == {Raise, Ok(<<>>)} \cup
    {Ok(f) : f \in IF batch.on THEN BatchFrames ELSE PriceFrames}
IxicOutcomes == {Raise, Ok(<<>>)} \cup
    {Ok(f) : f \in IF batch.on THEN BatchIxic ELSE IxicFrames}
TnxOutcomes == {Raise, Ok(<<>>)} \cup
    {Ok(f) : f \in IF batch.on THEN BatchTnx ELSE TnxFrames}

(***************************************************************************)
(* compute_for.                                                            *)
(***************************************************************************)
\* "YYYY-MM-DD 형식 아님"
ERR_FORMAT == "not in YYYY-MM-DD format"
\* "가격 데이터 없음"
ERR_NO_DATA == "no price data"
\* "요청 날짜에 해당/인접 거래일 없음"
ERR_NO_SESSION == "no session on or next to the requested date"

ErrorRow(ticker, date_str, msg) ==
    [Ticker |-> ticker, RequestedDate |-> date_str, Error |-> msg]

\* round(float(x), digits) if pd.notna(x) else None
Rounded(x, scale) ==
    IF x = None THEN None ELSE IF IsInf(x) THEN x ELSE <<Round(x, scale)>>

\* the row dict of lines 142-160
Row(a, l, y10) ==
    LET price_kst == to_kst_index(l.price)
        i == Loc(price_kst, l.ts[1])
        close == Int2F(price_kst[i].Close)
        ma == l.ma200[i]
        gap_pct == IF ma # None /\ ma[1] # 0
                   THEN FMul(FDiv(FSub(close, ma), ma), <<100, 1>>)
                   ELSE None
    IN  [Ticker |-> a.ticker,
         RequestedDate |-> a.date_str,
         ReportDate |-> DateOf(l.ts[1]),
         Close |-> Rounded(close, 10000),
         RSI |-> Rounded(l.rsi[i], 100),
         StochK |-> Rounded(l.k[i], 100),
         StochD |-> Rounded(l.d[i], 100),
         SMA |-> Rounded(ma, 10000),
         Gap_from_SMA200 |-> Rounded(gap_pct, 100),
         US10Y_Yield |-> Rounded(y10, 100),
         NASDAQ_Drawdown |-> Rounded(l.dd, 100),
         Error |-> ""]

\* compute_for returns a row to its caller
Return(row, primary) ==
    /\ rows' = Append(rows, row)
    /\ hist' = Append(hist, primary)
    /\ pc' = "returned"

\* lines 111-114: the date string is parsed
ParseDate ==
    /\ pc = "parse_date"
    /\ LET parsed == strptime(args.date_str)
       IN  IF parsed = None
           THEN /\ Return(ErrorRow(args.ticker, args.date_str, ERR_FORMAT), "no fetch")
                /\ UNCHANGED loc
           ELSE /\ loc' = [loc EXCEPT !.when_kst = <<MidnightKst(parsed[1])>>]
                /\ pc' = "fetch"
                /\ UNCHANGED <<rows, hist>>
    /\ UNCHANGED <<args, fetchLog, batch, inp, out>>

\* lines 116-119: the primary series is fetched
FetchPrice ==
    /\ pc = "fetch"
    /\ \E res \in PriceOutcomes :
          /\ fetchLog' = Append(fetchLog,
                 download_history(args.ticker, DateOf(loc.when_kst[1]) - 500,
                                  DateOf(loc.when_kst[1])))
          /\ IF res.kind = "raise"
             THEN /\ pc' = "raised"
                  /\ hist' = Append(hist, "raise")
                  /\ UNCHANGED <<rows, loc>>
             ELSE IF res.data = <<>>
             THEN /\ Return(ErrorRow(args.ticker, args.date_str, ERR_NO_DATA), "empty")
                  /\ UNCHANGED loc
             ELSE /\ loc' = [loc EXCEPT !.price = res.data]
                  /\ pc' = "resolve"
                  /\ UNCHANGED <<rows, hist>>
    /\ UNCHANGED <<args, batch, inp, out>>

\* lines 121-131: the session the alignment policy picks
resolve(price, when_kst, align) ==
    LET price_kst == to_kst_index(price)
        exact_exists == \E i \in 1..Len(price_kst) : price_kst[i].kst = when_kst
    IN  IF align = "prev" THEN last_on_or_before_kst(price, when_kst)
        ELSE IF align = "next" THEN first_on_or_after_kst(price, when_kst)
        ELSE IF align = "exact" THEN (IF exact_exists THEN <<when_kst>> ELSE None)
        ELSE last_on_or_before_kst(price, when_kst)

\* lines 121-138: the session is resolved and the indicators are computed
Resolve ==
    /\ pc = "resolve"
    /\ LET ts == resolve(loc.price, loc.when_kst[1], args.align)
           price_kst == to_kst_index(loc.price)
           close == [i \in 1..Len(price_kst) |-> Int2F(price_kst[i].Close)]
           kd == stochastic_oscillator(price_kst, args.stoch_len, args.smooth_k,
                                       args.smooth_d)
       IN  IF ts = None
           THEN /\ Return(ErrorRow(args.ticker, args.date_str, ERR_NO_SESSION), "ok")
                /\ UNCHANGED loc
           ELSE /\ loc' = [loc EXCEPT !.ts = ts,
                                      !.rsi = rsi_wilder(close, args.rsi_len),
                                      !.k = kd[1],
                                      !.d = kd[2],
                                      !.ma200 = sma(close, args.sma_window)]
                /\ pc' = "benchmark"
                /\ UNCHANGED <<rows, hist>>
    /\ UNCHANGED <<args, fetchLog, batch, inp, out>>

\* how a context fetch went for the session at instant ts: it raised, gave
\* an empty frame, gave no session dated on or before the session's date
CtxKind(res, ts) ==
    IF res.kind = "raise" THEN "raise"
    ELSE IF res.data = <<>> THEN "empty"
    ELSE IF \A i \in 1..Len(res.data) :
                DateOf(to_kst_index(res.data)[i].kst) > DateOf(ts)
         THEN "no session"
    ELSE "ok"

\* line 139: the benchmark drawdown as of the resolved session
Benchmark ==
    /\ pc = "benchmark"
    /\ \E res \in IxicOutcomes :
          LET dd == nasdaq_drawdown_at_kst(res, loc.ts[1])
          IN  /\ fetchLog' = Append(fetchLog,
                     download_history("^IXIC", DateOf(loc.ts[1]) - 3650, DateOf(loc.ts[1])))
              /\ IF dd = Exc
                 THEN /\ pc' = "raised"
                      /\ hist' = Append(hist, "ok")
                      /\ UNCHANGED loc
                 ELSE /\ loc' = [loc EXCEPT !.dd = dd, !.ixic = CtxKind(res, loc.ts[1])]
                      /\ pc' = "yield"
                      /\ UNCHANGED hist
    /\ UNCHANGED <<args, rows, batch, inp, out>>

\* lines 140-160: the reference yield, then the row is built and returned
Yield ==
    /\ pc = "yield"
    /\ \E res \in TnxOutcomes :
          LET y10 == us10y_yield_at_kst(res, loc.ts[1])
          IN  /\ fetchLog' = Append(fetchLog,
                     download_history("^TNX", DateOf(loc.ts[1]) - 35, DateOf(loc.ts[1]) + 2))
              /\ loc' = [loc EXCEPT !.tnx = CtxKind(res, loc.ts[1])]
              /\ Return(Row(args, loc, y10), "ok")
    /\ UNCHANGED <<args, batch, inp, out>>

(***************************************************************************)
(* A caller calls compute_for once, with any ticker, date string and       *)
(* alignment policy.                                                       *)
(***************************************************************************)
Digits(n, width) == [i \in 1..width |-> (n \div Pow(10, width - i)) % 10]
DateStr(y, m, d) == <<y, m, d>>
Y2024 == <<2, 0, 2, 4>>

ValidDateStrings == {DateStr(Y2024, <<0, 6>>, Digits(dy, 2)) : dy \in 3..5}

DateStrings == ValidDateStrings \cup
    {DateStr(Y2024, <<6>>, <<4>>),          \* "2024-6-4"
     DateStr(Y2024, <<1, 3>>, <<4, 0>>),    \* "2024-13-40"
     DateStr(Y2024, <<0, 6>>, <<3, 1>>),    \* "2024-06-31"
     DateStr(<<2, 4>>, <<0, 6>>, <<0, 4>>), \* "24-06-04"
     DateStr(Y2024, <<0, 6>>, <<0, -1>>)}   \* "2024-06-0x"

Aligns == {"prev", "next", "exact", "nearest"}

CallArgs(ticker, date_str, align) ==
    [ticker |-> ticker, date_str |-> date_str, align |-> align,
     rsi_len |-> 2, stoch_len |-> 2, smooth_k |-> 1, smooth_d |-> 2, sma_window |-> 2]

Init ==
    /\ ProgramIdle
    /\ inp = None
    /\ out = None

Call ==
    /\ pc = "idle"
    /\ \E date_str \in DateStrings, align \in Aligns :
          args' = CallArgs("AAPL", date_str, align)
    /\ loc' = NoLocals
    /\ pc' = "parse_date"
    /\ UNCHANGED <<fetchLog, rows, batch, hist, inp, out>>

Next == Call \/ ParseDate \/ FetchPrice \/ Resolve \/ Benchmark \/ Yield

Spec == Init /\ [][Next]_vars

(***************************************************************************)
(* main: the batch over tickers x dates.  TICKERS, DATES and ALIGN are     *)
(* what the environment or config.json give.                               *)
(***************************************************************************)
MaxTickers == 2
MaxDates == 2

EmptyStr == DateStr(<<>>, <<>>, <<>>)                          \* ""
TickerLists == {SubSeq(<<"AAPL", "MSFT", "TSLA">>, 1, k) : k \in 1..MaxTickers}
RawDates == {DateStr(Y2024, <<0, 6>>, <<0, 3>>), DateStr(Y2024, <<0, 6>>, <<0, 4>>),
             DateStr(Y2024, <<1, 3>>, <<4, 0>>), EmptyStr}
RawDateLists == UNION {[1..k -> RawDates] : k \in 1..MaxDates}

\* lines 189-205: the lists are read, the dates that do not parse are dropped
MainStart ==
    /\ pc = "idle"
    /\ \E tickers_list \in TickerLists, raw_dates \in RawDateLists, align \in Aligns :
          LET Parses(d) == d # EmptyStr /\ strptime(d) # None
              dates_list == SelectSeq(raw_dates, Parses)
          IN  /\ batch' = [on |-> TRUE, tickers_list |-> tickers_list,
                           dates_list |-> dates_list, align |-> align, n |-> 0]
              /\ pc' = IF dates_list = <<>> THEN "exit" ELSE "loop"
    /\ UNCHANGED <<args, loc, fetchLog, rows, hist, inp, out>>

\* lines 208-217: the next (ticker, date) of the cross product is computed
MainCall ==
    /\ batch.on
    /\ pc \in {"loop", "returned"}
    /\ batch.n < Len(batch.tickers_list) * Len(batch.dates_list)
    /\ LET nd == Len(batch.dates_list)
           t == batch.tickers_list[(batch.n \div nd) + 1]
           d == batch.dates_list[(batch.n % nd) + 1]
       IN  args' = CallArgs(t, d, batch.align)
    /\ batch' = [batch EXCEPT !.n = @ + 1]
    /\ loc' = NoLocals
    /\ fetchLog' = <<>>
    /\ pc' = "parse_date"
    /\ UNCHANGED <<rows, hist, inp, out>>

\* lines 219-232: the rows are made a table and saved
MainSave ==
    /\ batch.on
    /\ pc \in {"loop", "returned"}
    /\ batch.n = Len(batch.tickers_list) * Len(batch.dates_list)
    /\ pc' = "saved"
    /\ UNCHANGED <<args, loc, fetchLog, rows, batch, hist, inp, out>>

NextMain ==
    MainStart \/ MainCall \/ MainSave \/ ParseDate \/ FetchPrice \/ Resolve \/
    Benchmark \/ Yield

SpecMain == Init /\ [][NextMain]_vars

(***************************************************************************)
(* sma on every close series and window within the bounds.                 *)
(***************************************************************************)
InitSma ==
    /\ ProgramIdle
    /\ inp \in [series : SeqsUpTo(1..MaxPx, MaxLen), window : 1..MaxWin]
    /\ out = <<>>

ApplySma ==
    /\ out = <<>>
    /\ out' = <<sma([i \in 1..Len(inp.series) |-> Int2F(inp.series[i])], inp.window)>>
    /\ UNCHANGED <<ProgramVars, inp>>

SpecSma == InitSma /\ [][ApplySma]_vars

(***************************************************************************)
(* rsi_wilder on every close series and length within the bounds.          *)
(***************************************************************************)
InitRsi ==
    /\ ProgramIdle
    /\ inp \in [close : SeqsUpTo(1..MaxPx, MaxLen), length : 1..MaxWin]
    /\ out = <<>>

ApplyRsi ==
    /\ out = <<>>
    /\ out' = <<rsi_wilder([i \in 1..Len(inp.close) |-> Int2F(inp.close[i])], inp.length)>>
    /\ UNCHANGED <<ProgramVars, inp>>

SpecRsi == InitRsi /\ [][ApplyRsi]_vars

(***************************************************************************)
(* stochastic_oscillator on every OHLC series with low <= close <= high    *)
(* and every parameter triple within the bounds.                           *)
(***************************************************************************)
Bars ==
    {b \in [Low : Levels, High : Levels, Close : Levels] :
        b.Low <= b.Close /\ b.Close <= b.High}

InitStoch ==
    /\ ProgramIdle
    /\ inp \in [df : SeqsUpTo(Bars, MaxLenS), length : 1..MaxWin,
                smooth_k : 1..MaxWin, smooth_d : 1..MaxWin]
    /\ out = <<>>

ApplyStoch ==
    /\ out = <<>>
    /\ out' = <<stochastic_oscillator(inp.df, inp.length, inp.smooth_k, inp.smooth_d)>>
    /\ UNCHANGED <<ProgramVars, inp>>

SpecStoch == InitStoch /\ [][ApplyStoch]_vars

(***************************************************************************)
(* Claims about the indicator library.                                     *)
(***************************************************************************)
RECURSIVE SumInts(_, _, _)
SumInts(c, lo, hi) == IF hi < lo THEN 0 ELSE c[hi] + SumInts(c, lo, hi - 1)

\* C9: sma returns a series as long as its input whose first window-1
\* entries are null and whose entry i >= window is the arithmetic mean of
\* the closes i-window+1..i; no average over fewer sessions is produced, so
\* a series shorter than the window gives only nulls.
C9_SmaIsTrailingMean ==
    out # <<>> =>
        LET c == inp.series
            L == inp.window
            r == out[1]
        IN  /\ DOMAIN r = 1..Len(c)
            /\ \A i \in 1..Len(c) :
                  IF i < L THEN r[i] = None
                  ELSE /\ IsNum(r[i])
                       /\ r[i][1] * L = SumInts(c, i - L + 1, i) * r[i][2]

\* C9 witness: a window of 2 applied to 3 closes, one null then two means
C9_Witness ==
    /\ out # <<>>
    /\ inp.window = 2
    /\ Len(inp.series) = 3
    /\ inp.series[1] # inp.series[2]
    /\ out[1][1] = None
    /\ out[1][2] # None
    /\ out[1][3] # None

\* the day-over-day gains and losses as integers (0 at the first entry)
Gains(c) == [j \in 1..Len(c) |-> IF j >= 2 /\ c[j] > c[j - 1] THEN c[j] - c[j - 1] ELSE 0]
Losses(c) == [j \in 1..Len(c) |-> IF j >= 2 /\ c[j] < c[j - 1] THEN c[j - 1] - c[j] ELSE 0]

\* length^(i-2) times the Wilder average at entry i >= 2 of the values
\* x[2], x[3], .., the recurrence avg[i] = avg[i-1] + (x[i] - avg[i-1])/length
\* seeded by x[2], written out as a sum
RECURSIVE WilderTail(_, _, _, _)
WilderTail(x, L, i, j) ==
    IF j > i THEN 0
    ELSE Pow(L - 1, i - j) * Pow(L, j - 3) * x[j] + WilderTail(x, L, i, j + 1)

WilderScaled(x, L, i) == Pow(L - 1, i - 2) * x[2] + WilderTail(x, L, i, 3)

NoDropUpTo(c, i) == \A j \in 2..i : c[j] >= c[j - 1]

\* what C10 says of a non-null entry: it is a number, equals
\* 100 - 100/(1 + avg_gain/avg_loss), and lies within [0, 100]
RsiValueOk(c, L, r, i) ==
    LET g == WilderScaled(Gains(c), L, i)
        l == WilderScaled(Losses(c), L, i)
    IN  /\ IsNum(r[i])
        /\ r[i][1] * (g + l) = 100 * g * r[i][2]
        /\ FLe(<<0, 1>>, r[i])
        /\ FLe(r[i], <<100, 1>>)

\* C10 as stated: an entry is null exactly when it is the first or the
\* Wilder average loss is zero, which is to say no close so far was below
\* its predecessor; every other entry is defined, equals
\* 100 - 100/(1 + avg_gain/avg_loss) and lies within [0, 100].
C10_AsStated ==
    out # <<>> =>
        LET c == inp.close
            L == inp.length
            r == out[1]
        IN  \A i \in 1..Len(c) :
                /\ (i >= 2 => (WilderScaled(Losses(c), L, i) = 0 <=> NoDropUpTo(c, i)))
                /\ IF i = 1 \/ NoDropUpTo(c, i) THEN r[i] = None
                   ELSE RsiValueOk(c, L, r, i)

\* C10 amended: an entry is null exactly when it is the first or the Wilder
\* average loss is zero; for a length >= 2 that is when no close so far was
\* below its predecessor, for length 1 (the average is the latest loss) when
\* the entry's own close is not below its predecessor.  Every other entry
\* is defined, equals 100 - 100/(1 + avg_gain/avg_loss), and is in [0, 100].
C10_RsiNullOrBounded ==
    out # <<>> =>
        LET c == inp.close
            L == inp.length
            r == out[1]
        IN  /\ DOMAIN r = 1..Len(c)
            /\ \A i \in 1..Len(c) :
                  LET zeroLoss == i >= 2 /\ WilderScaled(Losses(c), L, i) = 0
                  IN  /\ i >= 2 =>
                            (zeroLoss <=> IF L >= 2 THEN NoDropUpTo(c, i)
                                          ELSE c[i] >= c[i - 1])
                      /\ IF i = 1 \/ zeroLoss THEN r[i] = None
                         ELSE RsiValueOk(c, L, r, i)

\* C10 witness: a drop, then a rise; the last entry is a number strictly
\* between 0 and 100 and an earlier entry is null for a zero average loss
C10_Witness ==
    /\ out # <<>>
    /\ inp.length = 2
    /\ Len(inp.close) = 4
    /\ inp.close[2] > inp.close[1]
    /\ inp.close[3] < inp.close[2]
    /\ inp.close[4] > inp.close[3]
    /\ out[1][2] = None
    /\ IsNum(out[1][4])
    /\ FLt(<<0, 1>>, out[1][4])
    /\ FLt(out[1][4], <<100, 1>>)

\* the largest high and the smallest low of the sessions lo..hi
MaxHigh(df, lo, hi) == CHOOSE h \in {df[j].High : j \in lo..hi} :
                           \A j \in lo..hi : df[j].High <= h
MinLow(df, lo, hi) == CHOOSE l \in {df[j].Low : j \in lo..hi} :
                          \A j \in lo..hi : df[j].Low >= l

In0to100(x) == x = None \/ (IsNum(x) /\ FLe(<<0, 1>>, x) /\ FLe(x, <<100, 1>>))

\* C8: with low <= close <= high in every session, every entry of %K and %D
\* is null or within [0, 100]; a session whose trailing stoch_length window
\* has max(high) = min(low) has a null raw %K, and every smoothed %K and %D
\* entry whose smoothing window contains that session is null.
C8_StochNullOrBounded ==
    out # <<>> =>
        LET df == inp.df
            n == Len(df)
            k == out[1][1]
            d == out[1][2]
            raw == percent_k_raw(df, inp.length)
        IN  /\ DOMAIN k = 1..n
            /\ DOMAIN d = 1..n
            /\ \A i \in 1..n : In0to100(k[i]) /\ In0to100(d[i])
            /\ \A s \in inp.length..n :
                  MaxHigh(df, s - inp.length + 1, s) = MinLow(df, s - inp.length + 1, s) =>
                      /\ raw[s] = None
                      /\ \A j \in s..n : j - inp.smooth_k + 1 <= s => k[j] = None
                      /\ \A j \in s..n : j - inp.smooth_d + 1 <= s => d[j] = None

\* C8 witness: a flat session after a session with a range, smoothing over
\* two sessions: the raw %K before the flat one is a number, yet the
\* smoothed %K whose window holds the flat session is null
C8_Witness ==
    /\ out # <<>>
    /\ inp.length = 1
    /\ inp.smooth_k = 2
    /\ Len(inp.df) = 3
    /\ inp.df[1].High > inp.df[1].Low
    /\ inp.df[2].High > inp.df[2].Low
    /\ inp.df[3].High = inp.df[3].Low
    /\ IsNum(out[1][1][2])
    /\ FLt(<<0, 1>>, out[1][1][2])
    /\ out[1][1][3] = None

(***************************************************************************)
(* Claims about compute_for and main.                                      *)
(***************************************************************************)
AllDigits(date_str) ==
    \A f \in 1..3 : \A i \in 1..Len(date_str[f]) : IsDigit(date_str[f][i])

\* a calendar date written YYYY-MM-DD: four, two and two digits
StrictYmd(date_str) ==
    /\ AllDigits(date_str)
    /\ Len(date_str[1]) = 4 /\ Len(date_str[2]) = 2 /\ Len(date_str[3]) = 2
    /\ Val(date_str[1]) >= 1
    /\ Val(date_str[2]) \in 1..12
    /\ Val(date_str[3]) \in 1..DaysInMonth(Val(date_str[1]), Val(date_str[2]))

\* the instant of a bar in Seoul wall-clock hours, and its Seoul calendar date
Instant(b) == b.day * 24 + 9 - UtcOffset(b.tz)
SeoulDate(b) == Instant(b) \div 24

Last(q) == q[Len(q)]

\* the running call has fetched a non-empty primary series and resolved it
Aligned == loc.price # None /\ pc \in {"benchmark", "yield", "returned"}

\* the running call ended with the 'no adjacent session' record
NotFound ==
    /\ loc.ts = None
    /\ pc = "returned"
    /\ Last(rows) = ErrorRow(args.ticker, args.date_str, ERR_NO_SESSION)

RequestedDay == DateOf(loc.when_kst[1])

\* the positions of the sessions a policy may pick
OnOrBefore == {i \in 1..Len(loc.price) : SeoulDate(loc.price[i]) <= RequestedDay}
OnDay == {i \in 1..Len(loc.price) : SeoulDate(loc.price[i]) = RequestedDay}

SetMax(S) == CHOOSE x \in S : \A y \in S : y <= x

\* C1: under PREV a non-empty series and a valid date resolve to the latest
\* session whose Seoul date is <= the requested date, whatever its time of
\* day; 'no adjacent session' is reported only when there is no such session.
C1_PrevLatestOnOrBeforeDate ==
    (Aligned /\ StrictYmd(args.date_str) /\ args.align = "prev") =>
        IF OnOrBefore = {} THEN NotFound
        ELSE loc.ts = <<Instant(loc.price[SetMax(OnOrBefore)])>>

\* C2: under EXACT a non-empty series and a valid date resolve to the
\* session whose Seoul date is the requested date when there is one,
\* whatever its time of day, and to NOT_FOUND otherwise.
C2_ExactSessionOfDate ==
    (Aligned /\ StrictYmd(args.date_str) /\ args.align = "exact") =>
        IF OnDay = {} THEN NotFound
        ELSE loc.ts = <<Instant(loc.price[SetMax(OnDay)])>>

\* C3: a resolved session is a member of the series and its Seoul date is
\* <= the requested date under PREV, >= under NEXT, = under EXACT; under
\* EXACT the result is NOT_FOUND when no session has the requested date.
\* With sessions on 3 and 5 June only and 4 June requested, PREV gives
\* 3 June, NEXT gives 5 June and EXACT gives NOT_FOUND.
C3_PolicyDirection ==
    Aligned =>
        LET dates == {SeoulDate(loc.price[i]) : i \in 1..Len(loc.price)}
        IN  /\ loc.ts # None =>
                  \E i \in 1..Len(loc.price) :
                      /\ Instant(loc.price[i]) = loc.ts[1]
                      /\ args.align = "prev" => SeoulDate(loc.price[i]) <= RequestedDay
                      /\ args.align = "next" => SeoulDate(loc.price[i]) >= RequestedDay
                      /\ args.align = "exact" => SeoulDate(loc.price[i]) = RequestedDay
            /\ (args.align = "exact" /\ OnDay = {}) => NotFound
            /\ (dates = {3, 5} /\ RequestedDay = 4) =>
                  /\ args.align = "prev" => loc.ts # None /\ DateOf(loc.ts[1]) = 3
                  /\ args.align = "next" => loc.ts # None /\ DateOf(loc.ts[1]) = 5
                  /\ args.align = "exact" => NotFound
                  /\ (pc = "returned" /\ args.align = "prev") => Last(rows).ReportDate = 3
                  /\ (pc = "returned" /\ args.align = "next") => Last(rows).ReportDate = 5

\* C3 witness: sessions on 3 and 5 June stamped at New York midnight,
\* 4 June requested under NEXT, the row reports 5 June
C3_Witness ==
    /\ Aligned
    /\ pc = "returned"
    /\ args.align = "next"
    /\ RequestedDay = 4
    /\ Len(loc.price) = 2
    /\ loc.price[1].day = 3
    /\ loc.price[2].day = 5
    /\ loc.price[1].tz = "America/New_York"
    /\ Last(rows).Error = ""
    /\ Last(rows).ReportDate = 5

\* the record of a request whose primary series gave nothing
IsErrorRecord(row, ticker, date_str, msg) ==
    /\ DOMAIN row = {"Ticker", "RequestedDate", "Error"}
    /\ row = ErrorRow(ticker, date_str, msg)

\* C4: in a batch a primary fetch that raises or returns an empty series
\* gives that request a 'no price data' record with no indicator field,
\* the batch is not aborted, and the table ends with one record per valid
\* (ticker, date) request, in request order.
C4_PrimaryFailureIsLocal ==
    batch.on =>
        /\ pc # "raised"
        /\ pc = "saved" =>
              LET nd == Len(batch.dates_list)
              IN  /\ Len(rows) = Len(batch.tickers_list) * nd
                  /\ \A r \in 1..Len(rows) :
                        /\ rows[r].Ticker = batch.tickers_list[((r - 1) \div nd) + 1]
                        /\ rows[r].RequestedDate = batch.dates_list[((r - 1) % nd) + 1]
                        /\ hist[r] \in {"raise", "empty"} =>
                              IsErrorRecord(rows[r], rows[r].Ticker,
                                            rows[r].RequestedDate, ERR_NO_DATA)

ContextFailures == {"raise", "empty", "no session"}

\* C5: once the primary series resolved to a session, a benchmark or yield
\* fetch that raises, is empty or has no session dated on or before the
\* resolved session's date never aborts the call and never sets Error: the
\* row has Error empty, the affected field null, and its close and
\* indicators are those of the primary series at the resolved session.
C5_ContextFailureAbsorbed ==
    /\ pc = "raised" => loc.ts = None
    /\ (pc = "returned" /\ loc.ts # None) =>
          LET row == Last(rows)
              price_kst == to_kst_index(loc.price)
              i == Loc(price_kst, loc.ts[1])
              close == [j \in 1..Len(loc.price) |-> Int2F(loc.price[j].Close)]
              kd == stochastic_oscillator(loc.price, args.stoch_len, args.smooth_k,
                                          args.smooth_d)
          IN  /\ row.Error = ""
              /\ loc.ixic \in ContextFailures => row.NASDAQ_Drawdown = None
              /\ loc.tnx \in ContextFailures => row.US10Y_Yield = None
              /\ row.Close = <<loc.price[i].Close * 10000>>
              /\ row.RSI = Rounded(rsi_wilder(close, args.rsi_len)[i], 100)
              /\ row.StochK = Rounded(kd[1][i], 100)
              /\ row.StochD = Rounded(kd[2][i], 100)
              /\ row.SMA = Rounded(sma(close, args.sma_window)[i], 10000)

\* C5 witness: the benchmark fetch raised, the yield fetch gave no session
\* on or before the resolved one, and the row still carries an RSI
C5_Witness ==
    /\ pc = "returned"
    /\ loc.ts # None
    /\ loc.ixic = "raise"
    /\ loc.tnx = "no session"
    /\ Last(rows).Error = ""
    /\ Last(rows).RSI # None
    /\ Last(rows).NASDAQ_Drawdown = None
    /\ Last(rows).US10Y_Yield = None

\* the call is at PARSE_DATE or has emitted the invalid-date record, with
\* nothing but ticker, requested date and error in it, and fetched nothing
ShortCircuited ==
    /\ pc \in {"parse_date", "returned"}
    /\ fetchLog = <<>>
    /\ pc = "returned" =>
          IsErrorRecord(Last(rows), args.ticker, args.date_str, ERR_FORMAT)

\* C6: a date string that is not a valid YYYY-MM-DD calendar date
\* takes compute_for from PARSE_DATE directly to the invalid-date record,
\* and no fetch is attempted.
C6_InvalidDateShortCircuits == (pc # "idle" /\ ~StrictYmd(args.date_str)) => ShortCircuited

\* C7: a row with an empty Error carries a Price>SMA field: close > sma at
\* the resolved session when the SMA is defined there, null when it is not,
\* and then the gap is null too.
C7_AboveSmaField ==
    (pc = "returned" /\ Last(rows).Error = "") =>
        LET row == Last(rows)
            i == Loc(to_kst_index(loc.price), loc.ts[1])
            ma == loc.ma200[i]
        IN  /\ "Price_gt_SMA" \in DOMAIN row
            /\ IF ma = None
               THEN row.Price_gt_SMA = None /\ row.Gap_from_SMA200 = None
               ELSE row.Price_gt_SMA = <<FLt(ma, Int2F(loc.price[i].Close))>>

====
